---------------------------- MODULE Spec2Model ----------------------------
(***************************************************************************)
(* Track statistics engine of the diary backend                            *)
(* (backend/app/services/track_service.py).                                *)
(*                                                                         *)
(* Floats are modelled in fixed point:                                     *)
(*   - lengths and elevations in millimetres (1/1000 m),                   *)
(*   - latitude / longitude in units of 1e-7 degree,                       *)
(*   - instants in milliseconds, durations in whole seconds,               *)
(*   - speeds in millimetres per second.                                   *)
(* round(x, 2) therefore rounds to the nearest multiple of 10.             *)
(* Every Python value is a tagged record, so that None, numbers and        *)
(* values of a wrong type stay distinct.                                   *)
(***************************************************************************)
EXTENDS Integers, Sequences, FiniteSets

\* Longest input drawn for the families that vary one kind of field.
MaxLen == 4
\* Longest input drawn for the families that vary several fields at once.
MixLen == 3

---------------------------------------------------------------------------
(* Python values *)

None == [kind |-> "none", v |-> 0]
Num(n) == [kind |-> "num", v |-> n]
\* A value of a non-numeric type (such as the string "abc") in a numeric field.
Bad == [kind |-> "str", v |-> 0]

IsNum(x) == x.kind = "num"

\* Timestamps: a datetime object (tz "utc" = offset-aware, "naive" = no
\* offset), a string (tz holds its suffix after the seconds: "Z", "+00:00",
\* "" for none, "??" for text that is no ISO-8601 date), or an int.
TsNone == [kind |-> "none", v |-> 0, tz |-> ""]
DateTime(ms, tz) == [kind |-> "datetime", v |-> ms, tz |-> tz]
TsStr(ms, suffix) == [kind |-> "str", v |-> ms, tz |-> suffix]
TsInt(n) == [kind |-> "int", v |-> n, tz |-> ""]

\* abs()
abs(x) == IF x < 0 THEN -x ELSE x

---------------------------------------------------------------------------
(* calculate_distance: the Haversine formula with R = 6371000 m, evaluated  *)
(* on the coordinate grid {0, 1e-7} x {0, 1.0} degrees and given in        *)
(* millimetres: 1e-7 degree of latitude is 0.011119 m, one degree of       *)
(* longitude at the equator is 111194.927 m.  Any other argument is a      *)
(* TypeError in math.radians, which the caller models.                     *)

\* calculate_distance as a signed difference, not a length.
calculate_distance_Signed(lat1, lon1, lat2, lon2) ==
    IF lon1 # lon2 THEN (IF lon2 > lon1 THEN 111194927 ELSE -111194927)
    ELSE IF lat1 # lat2 THEN (IF lat2 > lat1 THEN 11 ELSE -11)
    ELSE 0

\* Lines 18-21: the Haversine intermediate a of the double computation, as
\* billionths (truncated) plus units in the last place of 1.0 (2^-52).  For
\* (8, 0) and (-8, 180) the doubles give a = 1.0000000000000002.
haversine_a(lat1, lon1, lat2, lon2) ==
    IF lat1 = lat2 /\ lon1 = lon2 THEN [nano |-> 0, ulps |-> 0]
    ELSE IF /\ abs(lat1) = 80000000 /\ lat2 = -lat1
            /\ abs(lon1 - lon2) = 1800000000
         THEN [nano |-> 1000000000, ulps |-> 1]
    ELSE IF lon1 # lon2 THEN [nano |-> 76152, ulps |-> 0]
    ELSE [nano |-> 0, ulps |-> 0]

\* Line 22: math.sqrt(1 - a) raises ValueError (math domain error) when
\* 1 - a is negative; a is used as computed, it is not clamped.
SqrtDomainError(a) ==
    a.nano > 1000000000 \/ (a.nano = 1000000000 /\ a.ulps > 0)

\* Lines 9-24 where line 22 does not raise.
calculate_distance(lat1, lon1, lat2, lon2) ==
    IF lon1 # lon2 THEN 111194927
    ELSE IF lat1 # lat2 THEN 11
    ELSE 0

---------------------------------------------------------------------------
(* Rounding and integer conversion *)

\* n / d rounded to the nearest integer, ties to the even one (d # 0).
RoundHalfEven(n, d) ==
    LET num == IF d < 0 THEN -n ELSE n
        den == abs(d)
        q == num \div den
        r == num % den
    IN  IF 2 * r < den THEN q
        ELSE IF 2 * r > den THEN q + 1
        ELSE IF q % 2 = 0 THEN q ELSE q + 1

\* round(x, 2) left out: the value as accumulated.
Round2_Raw(x) == x

\* round(x, 2) of a length in millimetres.
Round2(x) == 10 * RoundHalfEven(x, 10)

\* int(x) as math.floor(x).
IntDiv_Floor(n, d) == n \div d

\* int(x): truncation toward zero of n / d (d > 0).
IntDiv(n, d) == IF n >= 0 THEN n \div d ELSE -((-n) \div d)

\* Smallest and largest of a non-empty list of integers.
Min(s) == CHOOSE m \in {s[k] : k \in 1..Len(s)} : \A k \in 1..Len(s) : m <= s[k]
Max(s) == CHOOSE m \in {s[k] : k \in 1..Len(s)} : \A k \in 1..Len(s) : m >= s[k]

Vals(s) == [k \in 1..Len(s) |-> s[k].v]

\* Whether min(s) / max(s) raises TypeError: a number compared with a string.
Unorderable(s) == \E j, k \in 1..Len(s) : s[j].kind # s[k].kind

\* min(s) taking the first entry for the smallest.
min_First(s) == s[1]

\* min(s) and max(s) of a non-empty list whose entries are all of one type.
min(s) == [kind |-> s[1].kind, v |-> Min(Vals(s))]
max(s) == [kind |-> s[1].kind, v |-> Max(Vals(s))]

\* The double additions of lines 75 and 77 round their sum.  An accumulator
\* of m millimetres is the double nearest to m / 1000 plus err units of
\* 2^-55 m; fadd_err is the err of acc + diff, as the doubles give it for
\* the elevations 0.0, 0.2 and 0.9 m in series of up to five entries
\* (0.2 + 0.7 is 0.8999999999999999, four units below the double 0.9).  The
\* subtraction of line 73 is exact on these elevations.  Sums of other
\* elevations are carried as exact millimetres.
DoubleSums ==
    {<<200, 0, 700, -4>>, <<700, 0, 200, -4>>, <<1400, 0, 200, -8>>,
     <<900, -4, 200, -8>>, <<900, -4, 700, -8>>, <<900, -4, 900, -8>>}

fadd_err(acc, err, diff) ==
    IF \E t \in DoubleSums : t[1] = acc /\ t[2] = err /\ t[3] = diff
    THEN (CHOOSE t \in DoubleSums : t[1] = acc /\ t[2] = err /\ t[3] = diff)[4]
    ELSE err

---------------------------------------------------------------------------
(* Inputs: track_data is a list of points, each a dict with the four keys. *)

Point(lat, lon, elev, ts) ==
    [latitude |-> lat, longitude |-> lon, elevation |-> elev, timestamp |-> ts]

\* Lists of at most n points of the set P.
Lists(P, n) == UNION {[1..k -> P] : k \in 0..n}

\* Coordinates vary (absent, one of the two, both), nothing else is given.
CoordPoints ==
    {Point(lat, lon, None, TsNone) :
        lat \in {None, Num(0), Num(1)}, lon \in {None, Num(0), Num(10000000)}}

\* Elevations vary (metres 100, 120, 150, 180 and 100.004) at a fixed place.
ElevPoints ==
    {Point(Num(0), Num(0), elev, TsNone) :
        elev \in {None, Num(100000), Num(120000), Num(150000), Num(180000),
                  Num(100004)}}

\* Timestamps vary at a fixed place: datetime objects with and without an
\* offset, ISO strings, and a string that does not parse.
TimePoints ==
    {Point(Num(0), Num(0), None, ts) :
        ts \in {TsNone, DateTime(0, "utc"), DateTime(1500, "utc"),
                DateTime(10000, "utc"), DateTime(500, "naive"),
                TsStr(2000, "Z"), TsStr(0, "??")}}

\* Coordinates, elevation and timestamp vary together.
MixedPoints ==
    {Point(c[1], c[2], elev, ts) :
        c \in {<<None, None>>, <<Num(0), Num(0)>>, <<Num(1), Num(0)>>},
        elev \in {None, Num(100000)},
        ts \in {TsNone, DateTime(0, "utc"), DateTime(4000, "utc")}}

\* Fields of a wrong type: a non-numeric latitude or elevation, an int
\* timestamp.
MalformedPoints ==
    {Point(lat, Num(0), elev, ts) :
        lat \in {Bad, Num(0)},
        elev \in {None, Bad, Num(100000)},
        ts \in {TsNone, TsInt(5), DateTime(0, "utc")}}

\* ISO strings as timestamps (with an offset, with "Z", not parseable) on
\* points whose longitude and elevation vary.
StringPoints ==
    {Point(Num(0), lon, elev, ts) :
        lon \in {Num(0), Num(10000000)},
        elev \in {Num(100000), Num(150000)},
        ts \in {TsStr(0, "+00:00"), TsStr(4000, "Z"), TsStr(0, "??")}}

\* Two places almost opposite each other on the globe: (8, 0) and (-8, 180).
AntipodalPoints ==
    {Point(Num(80000000), Num(0), None, TsNone),
     Point(Num(-80000000), Num(1800000000), None, TsNone)}

TrackInputs ==
    Lists(AntipodalPoints, MixLen) \cup Lists(CoordPoints, MaxLen) \cup Lists(ElevPoints, MaxLen)
        \cup Lists(TimePoints, MaxLen) \cup Lists(MixedPoints, MixLen)
        \cup Lists(MalformedPoints, MixLen) \cup Lists(StringPoints, MixLen)

---------------------------------------------------------------------------
(* calculate_track_stats *)

VARIABLES
    track_data,   \* the argument of the call
    pc,           \* "start", "loop", "returned" or "raised"
    frame,        \* the local variables of the call
    result,       \* the returned dict, NoResult until the call returns
    history,      \* the calls the process has finished, oldest first
    others,       \* the invocations running concurrently with this one
    db,           \* the rows of the tracks table
    response      \* the answer to the last request to a track endpoint

\* What lies outside the one invocation.
env == <<history, others, db, response>>

vars == <<track_data, pc, frame, result, history, others, db, response>>

\* The record returned for fewer than two points (lines 30-42).
EmptyStats ==
    [distance_meters |-> Num(0), duration_seconds |-> None,
     elevation_gain |-> None, elevation_loss |-> None,
     max_elevation |-> None, min_elevation |-> None, avg_speed |-> None,
     min_lat |-> None, max_lat |-> None, min_lon |-> None, max_lon |-> None]

\* No dict has been returned (the call is running, or it raised).
NoResult == [EmptyStats EXCEPT !.distance_meters = None]

\* Lines 44-50; i is the index of the next point of the for loop (1-based).
\* gain_err and loss_err are the parts of the doubles elevation_gain and
\* elevation_loss that the millimetres leave out (see fadd_err).
InitialFrame ==
    [i |-> 1, total_distance |-> 0, elevation_gain |-> 0, elevation_loss |-> 0,
     gain_err |-> 0, loss_err |-> 0,
     elevations |-> <<>>, latitudes |-> <<>>, longitudes |-> <<>>,
     timestamps |-> <<>>]

\* replace leaving the text as it is.
replace_Identity(suffix) == suffix

\* str.replace("Z", "+00:00") on the suffix of an ISO string.
replace(suffix) == IF suffix = "Z" THEN "+00:00" ELSE suffix

\* datetime.fromisoformat of the text with instant ms and the given suffix;
\* None stands for the ValueError that line 83 turns into ts = None.
fromisoformat(ms, suffix) ==
    IF suffix = "+00:00" THEN DateTime(ms, "utc")
    ELSE IF suffix = "" THEN DateTime(ms, "naive")
    ELSE TsNone

\* Truth value of a timestamp in `if ts:` (line 85).
Truthy(ts) ==
    IF ts.kind = "none" THEN FALSE
    ELSE IF ts.kind = "int" THEN ts.v # 0
    ELSE TRUE

\* HasCoords testing the latitude alone.
HasCoords_LatOnly(point) == point.latitude # None

\* HasCoords accepting a point that has either coordinate.
HasCoords_Either(point) == point.latitude # None \/ point.longitude # None

\* Lines 58 and 67: the dict carries both coordinates.
HasCoords(point) == point.latitude # None /\ point.longitude # None

\* prev_point as a "skip to the previous coordinate-bearing point" policy.
prev_point_Skipping(td, i) ==
    IF \E j \in 1..(i - 1) : HasCoords(td[j])
    THEN td[CHOOSE j \in 1..(i - 1) :
                HasCoords(td[j]) /\ \A k \in (j + 1)..(i - 1) : ~HasCoords(td[k])]
    ELSE td[i - 1]

\* prev_point as the point itself: every leg has length 0 in any order.
prev_point_Self(td, i) == td[i]

\* Line 63: the point the leg ending at index i starts from.
prev_point(td, i) == td[i - 1]

\* AddsLeg without the test of line 67 on the previous point.
AddsLeg_NoPrevTest(td, i) == i > 1 /\ HasCoords(td[i])

\* Lines 62-68: whether a leg ending at point i is added.
AddsLeg(td, i) == i > 1 /\ HasCoords(td[i]) /\ HasCoords(prev_point(td, i))

\* Line 68 raises TypeError in math.radians for a non-numeric coordinate, or
\* ValueError in the square root of line 22.
LegRaises(td, i) ==
    /\ AddsLeg(td, i)
    /\ \/ ~IsNum(td[i].latitude) \/ ~IsNum(td[i].longitude)
       \/ ~IsNum(prev_point(td, i).latitude)
       \/ ~IsNum(prev_point(td, i).longitude)
       \/ SqrtDomainError(haversine_a(
              prev_point(td, i).latitude.v, prev_point(td, i).longitude.v,
              td[i].latitude.v, td[i].longitude.v))

\* Line 68: the leg added for point i.
Leg(td, i) ==
    calculate_distance(prev_point(td, i).latitude.v, prev_point(td, i).longitude.v,
                       td[i].latitude.v, td[i].longitude.v)

\* Line 73 raises TypeError when elev or the previous entry is no number.
DiffRaises(f, elev) ==
    /\ elev # None
    /\ Len(f.elevations) >= 1
    /\ (~IsNum(elev) \/ ~IsNum(f.elevations[Len(f.elevations)]))

\* DistanceStep collecting the bounding box only from points that end a leg.
DistanceStep_BoxOnLegs(f, td) ==
    LET point == td[f.i]
    IN  IF AddsLeg(td, f.i)
        THEN [f EXCEPT
                !.latitudes = Append(@, point.latitude),
                !.longitudes = Append(@, point.longitude),
                !.total_distance = @ + Leg(td, f.i)]
        ELSE f

\* DistanceStep collecting each coordinate a point carries, whether or not
\* the point carries the other one.
DistanceStep_EachCoordinate(f, td) ==
    LET point == td[f.i]
    IN  [f EXCEPT
            !.latitudes =
                IF point.latitude # None THEN Append(@, point.latitude) ELSE @,
            !.longitudes =
                IF point.longitude # None THEN Append(@, point.longitude) ELSE @,
            !.total_distance = IF AddsLeg(td, f.i) THEN @ + Leg(td, f.i) ELSE @]

\* Lines 58-68 on frame f: the distance and bounding-box accumulators.
DistanceStep(f, td) ==
    LET point == td[f.i]
    IN  IF HasCoords(point)
        THEN [f EXCEPT
                !.latitudes = Append(@, point.latitude),
                !.longitudes = Append(@, point.longitude),
                !.total_distance =
                    IF AddsLeg(td, f.i) THEN @ + Leg(td, f.i) ELSE @]
        ELSE f

\* ElevationStep adding every delta to the gain: the net change.
ElevationStep_Net(f, td) ==
    LET elev == td[f.i].elevation
    IN  IF elev # None
        THEN IF Len(f.elevations) >= 1
             THEN LET diff == elev.v - f.elevations[Len(f.elevations)].v
                  IN  [f EXCEPT
                          !.elevations = Append(@, elev),
                          !.elevation_gain = @ + diff]
             ELSE [f EXCEPT !.elevations = Append(@, elev)]
        ELSE f

\* ElevationStep taking the first entry's delta from an elevation of 0.
ElevationStep_FromZero(f, td) ==
    LET elev == td[f.i].elevation
        prev == IF Len(f.elevations) >= 1
                THEN f.elevations[Len(f.elevations)].v ELSE 0
        diff == elev.v - prev
    IN  IF elev # None
        THEN [f EXCEPT
                !.elevations = Append(@, elev),
                !.elevation_gain = IF diff > 0 THEN @ + diff ELSE @,
                !.elevation_loss = IF diff > 0 THEN @ ELSE @ + abs(diff)]
        ELSE f

\* ElevationStep reading a missing elevation as 0 metres.
ElevationStep_MissingAsZero(f, td) ==
    LET elev == IF td[f.i].elevation = None THEN Num(0) ELSE td[f.i].elevation
    IN  IF Len(f.elevations) >= 1
        THEN LET diff == elev.v - f.elevations[Len(f.elevations)].v
             IN  [f EXCEPT
                     !.elevations = Append(@, elev),
                     !.elevation_gain = IF diff > 0 THEN @ + diff ELSE @,
                     !.elevation_loss = IF diff > 0 THEN @ ELSE @ + abs(diff)]
        ELSE [f EXCEPT !.elevations = Append(@, elev)]

\* ElevationStep adding the signed delta to the loss.
ElevationStep_SignedLoss(f, td) ==
    LET elev == td[f.i].elevation
    IN  IF elev # None
        THEN IF Len(f.elevations) >= 1
             THEN LET diff == elev.v - f.elevations[Len(f.elevations)].v
                  IN  [f EXCEPT
                          !.elevations = Append(@, elev),
                          !.elevation_gain = IF diff > 0 THEN @ + diff ELSE @,
                          !.elevation_loss = IF diff > 0 THEN @ ELSE @ + diff]
             ELSE [f EXCEPT !.elevations = Append(@, elev)]
        ELSE f

\* Lines 70-77 on frame f: the elevation accumulator.
ElevationStep(f, td) ==
    LET elev == td[f.i].elevation
    IN  IF elev # None
        THEN IF Len(f.elevations) >= 1
             THEN LET diff == elev.v - f.elevations[Len(f.elevations)].v
                  IN  [f EXCEPT
                          !.elevations = Append(@, elev),
                          !.elevation_gain = IF diff > 0 THEN @ + diff ELSE @,
                          !.elevation_loss = IF diff > 0 THEN @ ELSE @ + abs(diff),
                          !.gain_err =
                              IF diff > 0
                              THEN fadd_err(f.elevation_gain, @, diff) ELSE @,
                          !.loss_err =
                              IF diff > 0
                              THEN @ ELSE fadd_err(f.elevation_loss, @, abs(diff))]
             ELSE [f EXCEPT !.elevations = Append(@, elev)]
        ELSE f

\* Lines 79-86 on frame f: the timestamp collector.
TimestampStep(f, td) ==
    LET ts0 == td[f.i].timestamp
        ts == IF ts0.kind = "str" THEN fromisoformat(ts0.v, replace(ts0.tz))
              ELSE ts0
    IN  IF ts0 # TsNone /\ Truthy(ts)
        THEN [f EXCEPT !.timestamps = Append(@, ts)]
        ELSE f

\* One iteration of the for loop (lines 52-86) that does not raise.
LoopBody(f, td) ==
    [TimestampStep(ElevationStep(DistanceStep(f, td), td), td) EXCEPT !.i = @ + 1]

\* Whether the iteration for point f.i raises.
LoopRaises(f, td) == LegRaises(td, f.i) \/ DiffRaises(f, td[f.i].elevation)

\* Lines 91-92 raise: datetime minus datetime needs both offset-aware or
\* both naive (TypeError); anything but datetimes fails in the subtraction
\* (TypeError) or has no total_seconds (AttributeError).
DurationRaises(timestamps) ==
    /\ Len(timestamps) >= 2
    /\ LET first == timestamps[1]
           last == timestamps[Len(timestamps)]
       IN  \/ first.kind # "datetime"
           \/ last.kind # "datetime"
           \/ first.tz # last.tz

\* duration_seconds clamped at 0.
duration_seconds_Clamped(timestamps) ==
    IF Len(timestamps) >= 2
    THEN Num(Max(<<0, IntDiv(timestamps[Len(timestamps)].v - timestamps[1].v,
                             1000)>>))
    ELSE None

\* Lines 89-92: None, or int((timestamps[-1] - timestamps[0]).total_seconds()).
duration_seconds(timestamps) ==
    IF Len(timestamps) >= 2
    THEN Num(IntDiv(timestamps[Len(timestamps)].v - timestamps[1].v, 1000))
    ELSE None

\* HasSpeed without the test `duration_seconds > 0`.
HasSpeed_NoSign(dur) == dur # None /\ dur.v # 0

\* Line 96: `if duration_seconds and duration_seconds > 0`.
HasSpeed(dur) == dur # None /\ dur.v # 0 /\ dur.v > 0

\* avg_speed with `is not None` in place of the truth test of line 106.
avg_speed_NotNone(total_distance, dur) ==
    IF dur # None /\ dur.v # 0 /\ dur.v > 0
    THEN Num(10 * RoundHalfEven(total_distance, 10 * dur.v))
    ELSE None

\* Lines 95-97 and 106: avg_speed is the quotient total_distance / dur, kept
\* as numerator and denominator; it is falsy when it is None or 0.0, and
\* otherwise rounded to 2 places.
avg_speed(total_distance, dur) ==
    IF HasSpeed(dur)
    THEN IF total_distance # 0
         THEN Num(10 * RoundHalfEven(total_distance, 10 * dur.v))
         ELSE None
    ELSE None

\* Lines 99-111 raise TypeError when min() / max() compare a number and a
\* string.
ReturnRaises(f) ==
    Unorderable(f.elevations) \/ Unorderable(f.latitudes)
        \/ Unorderable(f.longitudes)

\* IfAny with 0 for an empty list.
IfAny_Zero(items, value) == IF items # <<>> THEN value ELSE Num(0)

\* IfAny as `value if value else None`: a value of 0 counts as missing.
IfAny_Falsy(items, value) ==
    IF items # <<>> /\ value.v # 0 THEN value ELSE None

\* The pattern `value if items else None` of lines 102-110.
IfAny(items, value) == IF items # <<>> THEN value ELSE None

\* Lines 88-111: the dict returned after the loop.
Stats(f) ==
    LET dur == duration_seconds(f.timestamps)
    IN  [distance_meters |-> Num(Round2(f.total_distance)),
         duration_seconds |-> dur,
         elevation_gain |-> IfAny(f.elevations, Num(Round2(f.elevation_gain))),
         elevation_loss |-> IfAny(f.elevations, Num(Round2(f.elevation_loss))),
         max_elevation |-> IfAny(f.elevations, max(f.elevations)),
         min_elevation |-> IfAny(f.elevations, min(f.elevations)),
         avg_speed |-> avg_speed(f.total_distance, dur),
         min_lat |-> IfAny(f.latitudes, min(f.latitudes)),
         max_lat |-> IfAny(f.latitudes, max(f.latitudes)),
         min_lon |-> IfAny(f.longitudes, min(f.longitudes)),
         max_lon |-> IfAny(f.longitudes, max(f.longitudes))]

\* The for loop (lines 52-86) from frame f to its end, or to the iteration
\* that raises.
RECURSIVE RunLoop(_, _)
RunLoop(f, td) ==
    IF f.i > Len(td) THEN [raised |-> FALSE, frame |-> f]
    ELSE IF LoopRaises(f, td) THEN [raised |-> TRUE, frame |-> f]
    ELSE RunLoop(LoopBody(f, td), td)

\* calculate_track_stats as a function of its argument: how the call ends
\* and the dict it returns.
calculate_track_stats(td) ==
    IF Len(td) < 2
    THEN [pc |-> "returned", result |-> EmptyStats]
    ELSE LET run == RunLoop(InitialFrame, td)
         IN  IF \/ run.raised
                \/ DurationRaises(run.frame.timestamps)
                \/ ReturnRaises(run.frame)
             THEN [pc |-> "raised", result |-> NoResult]
             ELSE [pc |-> "returned", result |-> Stats(run.frame)]

---------------------------------------------------------------------------
(* The call as a state machine: one step per loop iteration. *)

\* No call has finished.
NoHistory == <<>>

\* No other invocation runs.
NoOthers == <<>>

\* The tracks table is empty.
EmptyDb == <<>>

\* No request has been answered.
NoResponse == [status |-> 0]

\* Nothing but the one invocation: no concurrent call, no stored track.
EnvIdle ==
    history = NoHistory /\ others = NoOthers /\ db = EmptyDb /\ response = NoResponse

Init ==
    /\ track_data \in TrackInputs
    /\ pc = "start"
    /\ frame = InitialFrame
    /\ result = NoResult
    /\ EnvIdle

\* EarlyReturn for the empty list only: one point is put through the loop.
EarlyReturn_EmptyOnly ==
    /\ pc = "start"
    /\ Len(track_data) < 2
    /\ pc' = "returned"
    /\ result' = IF Len(track_data) = 0 THEN EmptyStats
                  ELSE Stats(LoopBody(InitialFrame, track_data))
    /\ UNCHANGED <<track_data, frame, env>>

\* Lines 29-42: fewer than two points.
EarlyReturn ==
    /\ pc = "start"
    /\ Len(track_data) < 2
    /\ pc' = "returned"
    /\ result' = EmptyStats
    /\ UNCHANGED <<track_data, frame, env>>

\* EnterLoop with accumulators that outlive the call (module-level state).
EnterLoop_KeepsAccumulators ==
    /\ pc = "start"
    /\ ~(Len(track_data) < 2)
    /\ pc' = "loop"
    /\ frame' = [frame EXCEPT !.i = 1]
    /\ UNCHANGED <<track_data, result, env>>

\* Lines 44-50: the accumulators are initialised and the loop is entered.
EnterLoop ==
    /\ pc = "start"
    /\ ~(Len(track_data) < 2)
    /\ pc' = "loop"
    /\ frame' = InitialFrame
    /\ UNCHANGED <<track_data, result, env>>

\* Lines 52-86: the iteration for point frame.i.
LoopIteration ==
    /\ pc = "loop"
    /\ frame.i <= Len(track_data)
    /\ IF LoopRaises(frame, track_data)
       THEN pc' = "raised" /\ UNCHANGED frame
       ELSE pc' = "loop" /\ frame' = LoopBody(frame, track_data)
    /\ UNCHANGED <<track_data, result, env>>

\* Lines 88-111: after the loop.
Return ==
    /\ pc = "loop"
    /\ frame.i > Len(track_data)
    /\ IF DurationRaises(frame.timestamps) \/ ReturnRaises(frame)
       THEN pc' = "raised" /\ UNCHANGED result
       ELSE pc' = "returned" /\ result' = Stats(frame)
    /\ UNCHANGED <<track_data, frame, env>>

Next == EarlyReturn \/ EnterLoop \/ LoopIteration \/ Return

Spec == Init /\ [][Next]_vars

---------------------------------------------------------------------------
(* The call on tracks whose points have an elevation only here and there. *)

\* Points without an elevation (one with nothing at all, one with place and
\* time) and points with one, among them a point at latitude 0, longitude 0
\* and elevation 0.
SparsePoints ==
    {Point(None, None, None, TsNone),
     Point(Num(0), Num(10000000), None, DateTime(4000, "utc")),
     Point(Num(0), Num(0), Num(100000), DateTime(0, "utc")),
     Point(Num(0), Num(0), Num(150000), TsNone),
     Point(Num(0), Num(0), Num(0), DateTime(0, "utc"))}

InitSparse ==
    /\ track_data \in Lists(SparsePoints, MaxLen)
    /\ pc = "start"
    /\ frame = InitialFrame
    /\ result = NoResult
    /\ EnvIdle

SpecSparse == InitSparse /\ [][Next]_vars

---------------------------------------------------------------------------
(* The call on tracks whose elevations are decimal fractions of a metre. *)

\* Longest input of the decimal family.
DecimalLen == 3

\* Points with an elevation of 0.0, 0.2 or 0.9 m and nothing else, and a
\* point with nothing at all.
DecimalPoints ==
    {Point(None, None, None, TsNone),
     Point(None, None, Num(0), TsNone),
     Point(None, None, Num(200), TsNone),
     Point(None, None, Num(900), TsNone)}

InitDecimal ==
    /\ track_data \in Lists(DecimalPoints, DecimalLen)
    /\ pc = "start"
    /\ frame = InitialFrame
    /\ result = NoResult
    /\ EnvIdle

SpecDecimal == InitDecimal /\ [][Next]_vars

---------------------------------------------------------------------------
(* Successive calls in one process: after a call has returned or raised, the
   caller calls calculate_track_stats again, on any input. *)

CallLen == 2
MaxCalls == 3

\* Two points that differ in place, elevation and time.
CallPoints ==
    {Point(Num(0), Num(0), Num(100000), DateTime(0, "utc")),
     Point(Num(0), Num(10000000), Num(150000), DateTime(4000, "utc"))}

CallInputs == Lists(CallPoints, CallLen)

InitCalls ==
    /\ track_data \in CallInputs
    /\ pc = "start"
    /\ frame = InitialFrame
    /\ result = NoResult
    /\ EnvIdle

\* What a finished call is remembered by: its argument and its outcome.
Outcome == [track_data |-> track_data, pc |-> pc, result |-> result]

\* The next call of the process: the locals of the finished call are gone
\* with its frame (the model leaves the stale values in place, every path
\* that reads them assigns them first), nothing else is carried over.
Call ==
    /\ pc \in {"returned", "raised"}
    /\ Len(history) < MaxCalls - 1
    /\ history' = Append(history, Outcome)
    /\ track_data' \in CallInputs
    /\ pc' = "start"
    /\ result' = NoResult
    /\ UNCHANGED <<frame, others, db, response>>

NextCalls == EarlyReturn \/ EnterLoop \/ LoopIteration \/ Return \/ Call

SpecCalls == InitCalls /\ [][NextCalls]_vars

---------------------------------------------------------------------------
(* Concurrent calls: NumCalls invocations run at once, one loop step at a
   time, in any interleaving.  The first is the one of track_data, pc, frame
   and result; the others are the records others[c]. *)

NumCalls == 2

OtherCalls == 1..(NumCalls - 1)

\* An invocation at its entry.
Invocation(td) ==
    [track_data |-> td, pc |-> "start", frame |-> InitialFrame,
     result |-> NoResult]

InitConc ==
    /\ track_data \in CallInputs
    /\ pc = "start"
    /\ frame = InitialFrame
    /\ result = NoResult
    /\ others \in [OtherCalls -> {Invocation(td) : td \in CallInputs}]
    /\ history = NoHistory /\ db = EmptyDb /\ response = NoResponse

\* Accumulators shared by all invocations: those of the first one.
FrameOf_Shared(c) == frame

\* Lines 44-50: the accumulators invocation c works on are its own locals.
FrameOf(c) == others[c].frame

\* Lines 29-42 in invocation c.
OtherEarlyReturn(c) ==
    /\ others[c].pc = "start"
    /\ Len(others[c].track_data) < 2
    /\ others' = [others EXCEPT ![c].pc = "returned", ![c].result = EmptyStats]
    /\ UNCHANGED <<track_data, pc, frame, result, history, db, response>>

\* Lines 44-50 in invocation c.
OtherEnterLoop(c) ==
    /\ others[c].pc = "start"
    /\ ~(Len(others[c].track_data) < 2)
    /\ others' = [others EXCEPT ![c].pc = "loop", ![c].frame = InitialFrame]
    /\ UNCHANGED <<track_data, pc, frame, result, history, db, response>>

\* Lines 52-86 in invocation c: one iteration.
OtherLoopIteration(c) ==
    /\ others[c].pc = "loop"
    /\ FrameOf(c).i <= Len(others[c].track_data)
    /\ others' =
           IF LoopRaises(FrameOf(c), others[c].track_data)
           THEN [others EXCEPT ![c].pc = "raised"]
           ELSE [others EXCEPT
                    ![c].frame = LoopBody(FrameOf(c), others[c].track_data)]
    /\ UNCHANGED <<track_data, pc, frame, result, history, db, response>>

\* Lines 88-111 in invocation c.
OtherReturn(c) ==
    /\ others[c].pc = "loop"
    /\ FrameOf(c).i > Len(others[c].track_data)
    /\ others' =
           IF DurationRaises(FrameOf(c).timestamps) \/ ReturnRaises(FrameOf(c))
           THEN [others EXCEPT ![c].pc = "raised"]
           ELSE [others EXCEPT
                    ![c].pc = "returned", ![c].result = Stats(FrameOf(c))]
    /\ UNCHANGED <<track_data, pc, frame, result, history, db, response>>

NextConc ==
    \/ EarlyReturn \/ EnterLoop \/ LoopIteration \/ Return
    \/ \E c \in OtherCalls : OtherEarlyReturn(c)
    \/ \E c \in OtherCalls : OtherEnterLoop(c)
    \/ \E c \in OtherCalls : OtherLoopIteration(c)
    \/ \E c \in OtherCalls : OtherReturn(c)

SpecConc == InitConc /\ [][NextConc]_vars

---------------------------------------------------------------------------
(* The track endpoints (api/v1/endpoints/tracks.py).  A request is handled in
   one step; db is the tracks table, row k being the track with id k, and
   response is the answer to the last request.  The columns started_at,
   ended_at, created_at and updated_at are left out. *)

MaxTracks == 2

Users == {1, 2}

\* TrackPoint (schemas/track.py): both coordinates are floats, the elevation
\* is a float or None, the timestamp a datetime (with or without offset) or
\* None.
ApiPointA == Point(Num(0), Num(0), Num(100000), DateTime(0, "utc"))
ApiPointB == Point(Num(0), Num(10000000), Num(150000), DateTime(4000, "utc"))
ApiPointN == Point(Num(0), Num(0), None, DateTime(500, "naive"))

\* TrackCreate.track_data: no point, two points, two points whose timestamps
\* cannot be subtracted.
ApiInputs == {<<>>, <<ApiPointA, ApiPointB>>, <<ApiPointA, ApiPointN>>}

\* TrackUpdate bodies, as the fields that are set.
UpdateBodies ==
    {[name |-> "b"],
     [name |-> "b", description |-> "d", entry_id |-> Num(7)]}

\* The statistics columns and the bounding-box columns of Track.
StatisticsColumns ==
    {"distance_meters", "duration_seconds", "elevation_gain", "elevation_loss",
     "max_elevation", "min_elevation", "avg_speed"}
BoundingBoxColumns == {"min_lat", "max_lat", "min_lon", "max_lon"}

\* Track(user_id=..., name=..., track_data=..., **stats) with the id the
\* table assigns.
Track(id, user_id, td, stats) ==
    [live |-> TRUE, id |-> id, user_id |-> user_id,
     name |-> "a", description |-> "", entry_id |-> None,
     track_data |-> td,
     distance_meters |-> stats.distance_meters,
     duration_seconds |-> stats.duration_seconds,
     elevation_gain |-> stats.elevation_gain,
     elevation_loss |-> stats.elevation_loss,
     max_elevation |-> stats.max_elevation,
     min_elevation |-> stats.min_elevation,
     avg_speed |-> stats.avg_speed,
     min_lat |-> stats.min_lat, max_lat |-> stats.max_lat,
     min_lon |-> stats.min_lon, max_lon |-> stats.max_lon]

\* What is left at the id of a deleted track: ids are not given out twice.
Deleted == [live |-> FALSE]

\* Found looking the track up by its id alone.
Found_AnyOwner(track_id, user) ==
    /\ track_id \in 1..Len(db)
    /\ db[track_id].live

\* select(Track).where(Track.id == track_id, Track.user_id == user) has a row.
Found(track_id, user) ==
    /\ track_id \in 1..Len(db)
    /\ db[track_id].live
    /\ db[track_id].user_id = user

\* HTTPException(status_code=404, detail="Track not found").
NotFound(endpoint, track_id, user) ==
    [status |-> 404, endpoint |-> endpoint, track_id |-> track_id,
     user |-> user]

Answer(code, endpoint, track_id, user, body) ==
    [status |-> code, endpoint |-> endpoint, track_id |-> track_id,
     user |-> user, body |-> body]

\* The engine is not running while the endpoints are exercised.
EngineIdle ==
    /\ track_data = <<>>
    /\ pc = "start"
    /\ frame = InitialFrame
    /\ result = NoResult

InitApi == EngineIdle /\ EnvIdle

\* POST /: lines 20-46.  A call of calculate_track_stats that raises ends the
\* request with status 500 before anything is added.
create_track ==
    \E user \in Users, td \in ApiInputs :
        /\ Len(db) < MaxTracks
        /\ LET stats == calculate_track_stats(td)
               track == Track(Len(db) + 1, user, td, stats.result)
           IN  IF stats.pc = "raised"
               THEN /\ response' = [status |-> 500, endpoint |-> "create_track",
                                    track_id |-> 0, user |-> user]
                    /\ UNCHANGED db
               ELSE /\ db' = Append(db, track)
                    /\ response' =
                           Answer(201, "create_track", track.id, user, track)
        /\ UNCHANGED <<track_data, pc, frame, result, history, others>>

\* GET /: lines 49-85, first page, no date filter.
list_tracks ==
    \E user \in Users :
        /\ response' =
               Answer(200, "list_tracks", 0, user,
                      {db[k] : k \in {j \in 1..Len(db) : Found(j, user)}})
        /\ UNCHANGED <<track_data, pc, frame, result, history, others, db>>

\* GET /{track_id}: lines 88-106.
get_track ==
    \E user \in Users, track_id \in 1..MaxTracks :
        /\ response' =
               IF ~Found(track_id, user)
               THEN NotFound("get_track", track_id, user)
               ELSE Answer(200, "get_track", track_id, user, db[track_id])
        /\ UNCHANGED <<track_data, pc, frame, result, history, others, db>>

\* TrackStats(...) with elevation_gain and elevation_loss exchanged.
TrackStatsOf_Exchanged(track) ==
    [distance_meters |-> track.distance_meters,
     duration_seconds |-> track.duration_seconds,
     elevation_gain |-> track.elevation_loss,
     elevation_loss |-> track.elevation_gain,
     max_elevation |-> track.max_elevation,
     min_elevation |-> track.min_elevation,
     avg_speed |-> track.avg_speed]

\* Lines 127-135: TrackStats(distance_meters=track.distance_meters, ...).
TrackStatsOf(track) ==
    [distance_meters |-> track.distance_meters,
     duration_seconds |-> track.duration_seconds,
     elevation_gain |-> track.elevation_gain,
     elevation_loss |-> track.elevation_loss,
     max_elevation |-> track.max_elevation,
     min_elevation |-> track.min_elevation,
     avg_speed |-> track.avg_speed]

\* GET /{track_id}/stats: lines 109-135.
get_track_stats ==
    \E user \in Users, track_id \in 1..MaxTracks :
        /\ response' =
               IF ~Found(track_id, user)
               THEN NotFound("get_track_stats", track_id, user)
               ELSE Answer(200, "get_track_stats", track_id, user,
                           TrackStatsOf(db[track_id]))
        /\ UNCHANGED <<track_data, pc, frame, result, history, others, db>>

\* An update that also replaces the point list, the statistics staying.
Updated_WithData(track, update_data) ==
    [field \in DOMAIN track |->
        IF field \in DOMAIN update_data THEN update_data[field]
        ELSE IF field = "track_data" THEN <<>>
        ELSE track[field]]

\* Lines 158-160: setattr(track, field, value) for the fields that are set.
Updated(track, update_data) ==
    [field \in DOMAIN track |->
        IF field \in DOMAIN update_data THEN update_data[field]
        ELSE track[field]]

\* PUT /{track_id}: lines 138-163.
update_track ==
    \E user \in Users, track_id \in 1..MaxTracks, track_in \in UpdateBodies :
        /\ IF ~Found(track_id, user)
           THEN /\ response' = NotFound("update_track", track_id, user)
                /\ UNCHANGED db
           ELSE /\ db' = [db EXCEPT ![track_id] = Updated(@, track_in)]
                /\ response' = Answer(200, "update_track", track_id, user,
                                       Updated(db[track_id], track_in))
        /\ UNCHANGED <<track_data, pc, frame, result, history, others>>

\* DELETE /{track_id}: lines 166-185.
delete_track ==
    \E user \in Users, track_id \in 1..MaxTracks :
        /\ IF ~Found(track_id, user)
           THEN /\ response' = NotFound("delete_track", track_id, user)
                /\ UNCHANGED db
           ELSE /\ db' = [db EXCEPT ![track_id] = Deleted]
                /\ response' = [status |-> 204, endpoint |-> "delete_track",
                                 track_id |-> track_id, user |-> user]
        /\ UNCHANGED <<track_data, pc, frame, result, history, others>>

NextApi ==
    \/ create_track \/ list_tracks \/ get_track \/ get_track_stats
    \/ update_track \/ delete_track

SpecApi == InitApi /\ [][NextApi]_vars

TypeOK ==
    /\ pc \in {"start", "loop", "returned", "raised"}
    /\ frame.i \in 1..(Len(track_data) + 1)

---------------------------------------------------------------------------
(* Properties *)

Returned == pc = "returned"

\* The point carries both latitude and longitude.
Carries(point) == point.latitude.kind # "none" /\ point.longitude.kind # "none"

\* Number of points of td that carry both coordinates.
CoordCount(td) == Cardinality({k \in 1..Len(td) : Carries(td[k])})

\* Sum over the indices k in 2..n of the great-circle distance from td[k-1]
\* to td[k], taken only where both of these two points carry coordinates.
RECURSIVE AdjacentLegs(_, _)
AdjacentLegs(td, n) ==
    IF n < 2 THEN 0
    ELSE AdjacentLegs(td, n - 1) +
         (IF Carries(td[n]) /\ Carries(td[n - 1])
          THEN calculate_distance(td[n - 1].latitude.v, td[n - 1].longitude.v,
                                  td[n].latitude.v, td[n].longitude.v)
          ELSE 0)

\* C1: a leg is added for index i exactly when track_data[i] and
\* track_data[i-1] (raw index) both carry coordinates: after every
\* iteration the running total is the sum of exactly those legs, and the
\* returned distance is that sum rounded to 2 places.
C1_RawIndexLegs ==
    /\ pc = "loop" => frame.total_distance = AdjacentLegs(track_data, frame.i - 1)
    /\ (Returned /\ Len(track_data) >= 2) =>
           result.distance_meters =
               Num(Round2(AdjacentLegs(track_data, Len(track_data))))

\* C1 witness: [coords, no coords, coords] at two different places returned
\* with no leg across the gap.
C1_Witness ==
    /\ Returned
    /\ Len(track_data) = 3
    /\ Carries(track_data[1]) /\ ~Carries(track_data[2]) /\ Carries(track_data[3])
    /\ track_data[1].longitude # track_data[3].longitude
    /\ result.distance_meters = Num(0)

\* C2: the call never raises, whatever the fields of the points hold.
C2_NeverRaises == pc # "raised"

\* Every optional field of the returned record is absent.
AllOptionalAbsent(r) ==
    /\ r.duration_seconds = None
    /\ r.elevation_gain = None /\ r.elevation_loss = None
    /\ r.max_elevation = None /\ r.min_elevation = None
    /\ r.avg_speed = None
    /\ r.min_lat = None /\ r.max_lat = None
    /\ r.min_lon = None /\ r.max_lon = None

\* C3 as stated: fewer than two points with both coordinates give distance 0
\* and every optional field absent.
C3_Original ==
    (Returned /\ CoordCount(track_data) < 2) =>
        (result.distance_meters = Num(0) /\ AllOptionalAbsent(result))

\* C3 amended: fewer than two points with both coordinates give distance 0
\* and no average speed; the bounding box is absent when no point has both
\* coordinates, and every optional field is absent when the list itself has
\* fewer than two points.
C3_FewCoordinates ==
    (Returned /\ CoordCount(track_data) < 2) =>
        /\ result.distance_meters = Num(0)
        /\ result.avg_speed = None
        /\ CoordCount(track_data) = 0 =>
               (result.min_lat = None /\ result.max_lat = None
                    /\ result.min_lon = None /\ result.max_lon = None)
        /\ Len(track_data) < 2 => AllOptionalAbsent(result)

\* C3 witness: two or more points, exactly one with coordinates (away from
\* latitude 0, longitude 0), a duration and elevations reported.
C3_Witness ==
    /\ Returned
    /\ Len(track_data) >= 2
    /\ CoordCount(track_data) = 1
    /\ result.max_lat = Num(1)
    /\ result.duration_seconds # None
    /\ result.max_elevation # None
    /\ result.distance_meters = Num(0)

\* C4: the returned distance is never negative (nor is the running total).
C4_DistanceNonNegative ==
    /\ frame.total_distance >= 0
    /\ Returned => result.distance_meters.v >= 0

\* C4 witness: a returned distance above 0 from a track that goes there and
\* back.
C4_Witness ==
    /\ Returned
    /\ Len(track_data) >= 3
    /\ Carries(track_data[1]) /\ Carries(track_data[2]) /\ Carries(track_data[3])
    /\ track_data[1] = track_data[3]
    /\ track_data[1] # track_data[2]
    /\ result.distance_meters.v > 0

\* The elevation series: the elevation values of the first n points that
\* carry one, in arrival order.
RECURSIVE ElevationSeries(_, _)
ElevationSeries(td, n) ==
    IF n = 0 THEN <<>>
    ELSE IF td[n].elevation.kind # "none"
         THEN Append(ElevationSeries(td, n - 1), td[n].elevation)
         ELSE ElevationSeries(td, n - 1)

\* The k-th delta of a series: entry k minus entry k - 1 (k >= 2).
Delta(series, k) == series[k].v - series[k - 1].v

\* Sum of the strictly positive deltas among the first n entries.
RECURSIVE PositiveDeltas(_, _)
PositiveDeltas(series, n) ==
    IF n < 2 THEN 0
    ELSE PositiveDeltas(series, n - 1) +
         (IF Delta(series, n) > 0 THEN Delta(series, n) ELSE 0)

\* Sum of the absolute values of the non-positive deltas among the first n
\* entries.
RECURSIVE NonPositiveDeltas(_, _)
NonPositiveDeltas(series, n) ==
    IF n < 2 THEN 0
    ELSE NonPositiveDeltas(series, n - 1) +
         (IF Delta(series, n) <= 0 THEN -Delta(series, n) ELSE 0)

PositiveDeltaSum(series) == PositiveDeltas(series, Len(series))
NonPositiveDeltaSum(series) == NonPositiveDeltas(series, Len(series))

\* C5: the gain is the sum of the strictly positive deltas of the elevation
\* series and the loss the sum of the absolute values of the non-positive
\* ones, in the accumulators after every iteration and (rounded to 2 places)
\* in the returned record.
C5_SignedDeltaSums ==
    /\ pc = "loop" =>
           LET series == ElevationSeries(track_data, frame.i - 1)
           IN  /\ frame.elevation_gain = PositiveDeltaSum(series)
               /\ frame.elevation_loss = NonPositiveDeltaSum(series)
    /\ (Returned /\ Len(track_data) >= 2
            /\ ElevationSeries(track_data, Len(track_data)) # <<>>) =>
           LET series == ElevationSeries(track_data, Len(track_data))
           IN  /\ result.elevation_gain = Num(Round2(PositiveDeltaSum(series)))
               /\ result.elevation_loss = Num(Round2(NonPositiveDeltaSum(series)))

\* C5 witness: the series 100, 150, 120, 180 returned with gain 110 and
\* loss 30 (the net change is 80).
C5_Witness ==
    /\ Returned
    /\ ElevationSeries(track_data, Len(track_data)) =
           <<Num(100000), Num(150000), Num(120000), Num(180000)>>
    /\ result.elevation_gain = Num(110000)
    /\ result.elevation_loss = Num(30000)

ElevationAbsent(r) ==
    /\ r.elevation_gain = None /\ r.elevation_loss = None
    /\ r.max_elevation = None /\ r.min_elevation = None

\* C6: when no point carries an elevation, the four elevation outputs are
\* absent.
C6_NoElevationAbsent ==
    (Returned /\ ElevationSeries(track_data, Len(track_data)) = <<>>) =>
        ElevationAbsent(result)

\* C6 witness: two or more points with coordinates and a distance, none with
\* an elevation.
C6_Witness ==
    /\ Returned
    /\ Len(track_data) >= 2
    /\ \A k \in 1..Len(track_data) :
           Carries(track_data[k]) /\ track_data[k].elevation = None
    /\ result.distance_meters.v > 0
    /\ ElevationAbsent(result)

\* The elevation series has exactly one entry, and the record reports it:
\* no gain, no loss, that entry as maximum and minimum.
OneEntryReported(td, r) ==
    LET series == ElevationSeries(td, Len(td))
    IN  /\ r.elevation_gain = Num(0) /\ r.elevation_loss = Num(0)
        /\ r.max_elevation = series[1] /\ r.min_elevation = series[1]

\* C7 as stated: an elevation series of exactly one entry gives gain and
\* loss 0 and that entry as maximum and minimum.
C7_Original ==
    (Returned /\ Len(ElevationSeries(track_data, Len(track_data))) = 1) =>
        OneEntryReported(track_data, result)

\* C7 amended: the same for an input of at least two points; for a single
\* point the four elevation outputs are absent.
C7_SingleElevation ==
    (Returned /\ Len(ElevationSeries(track_data, Len(track_data))) = 1) =>
        IF Len(track_data) >= 2
        THEN OneEntryReported(track_data, result)
        ELSE ElevationAbsent(result)

\* C7 witness: several points, one of them with an elevation (100.004 m,
\* returned unrounded).
C7_Witness ==
    /\ Returned
    /\ Len(track_data) >= 3
    /\ ElevationSeries(track_data, Len(track_data)) = <<Num(100004)>>
    /\ track_data[2].elevation = Num(100004)
    /\ result.max_elevation = Num(100004)
    /\ result.elevation_gain = Num(0)

\* The timestamp is a date-time or a string that parses as one.
Parseable(ts) ==
    \/ ts.kind = "datetime"
    \/ ts.kind = "str" /\ ts.tz \in {"Z", "+00:00", ""}

\* The instants (milliseconds) of the parseable timestamps of the first n
\* points, in arrival order.
RECURSIVE Instants(_, _)
Instants(td, n) ==
    IF n = 0 THEN <<>>
    ELSE IF Parseable(td[n].timestamp)
         THEN Append(Instants(td, n - 1), td[n].timestamp.v)
         ELSE Instants(td, n - 1)

\* Last minus first instant of the input, in milliseconds.
LastMinusFirst(td) ==
    LET t == Instants(td, Len(td)) IN t[Len(t)] - t[1]

\* The call is over: it returned a record or it raised.
Terminated == pc \in {"returned", "raised"}

\* Every field of every point is None or of the type the engine expects.
WellTyped(td) ==
    \A k \in 1..Len(td) :
        /\ td[k].latitude.kind \in {"none", "num"}
        /\ td[k].longitude.kind \in {"none", "num"}
        /\ td[k].elevation.kind \in {"none", "num"}
        /\ td[k].timestamp.kind \in {"none", "datetime", "str"}

\* C8: for well-typed points, once the call is over duration_seconds is
\* present exactly when two or more points carry a parseable timestamp, and
\* then it is last minus first in arrival order, to within its conversion to
\* whole seconds.
C8_DurationPresentIffTwo ==
    (Terminated /\ WellTyped(track_data)) =>
        /\ result.duration_seconds # None <=>
               Len(Instants(track_data, Len(track_data))) >= 2
        /\ result.duration_seconds # None =>
               /\ result.duration_seconds.v * 1000 > LastMinusFirst(track_data) - 1000
               /\ result.duration_seconds.v * 1000 < LastMinusFirst(track_data) + 1000

\* Mathematical floor of n / 1000.
FloorSeconds(n) == n \div 1000

\* C9 as stated: the duration is the floor of (last - first) in seconds,
\* also when last precedes first.
C9_Original ==
    (Returned /\ result.duration_seconds # None) =>
        result.duration_seconds.v = FloorSeconds(LastMinusFirst(track_data))

\* C9 amended: the duration is (last - first) in seconds truncated toward
\* zero: the floor when last is not before first, the ceiling when it is.
C9_DurationTruncated ==
    (Returned /\ result.duration_seconds # None) =>
        LET d == LastMinusFirst(track_data)
        IN  IF d >= 0
            THEN result.duration_seconds.v = FloorSeconds(d)
            ELSE result.duration_seconds.v = -FloorSeconds(-d)

\* C9 witness: last 1.5 s before first, reported as -1.
C9_Witness ==
    /\ Returned
    /\ Len(Instants(track_data, Len(track_data))) >= 2
    /\ LastMinusFirst(track_data) = -1500
    /\ result.duration_seconds = Num(-1)

\* C10 as stated: avg_speed is absent when the duration is absent or zero
\* and when the speed rounds to 0; it is never returned as 0.
C10_Original ==
    Returned =>
        /\ (result.duration_seconds = None \/ result.duration_seconds = Num(0)) =>
               result.avg_speed = None
        /\ result.avg_speed # Num(0)

\* C10 amended: avg_speed is absent when the duration is absent or zero and
\* when the total distance (hence the unrounded speed) is exactly 0; a
\* positive speed that rounds to 0 is returned as 0, and only such a speed.
C10_SpeedAbsentOrRoundedZero ==
    Returned =>
        /\ (result.duration_seconds = None \/ result.duration_seconds = Num(0)) =>
               result.avg_speed = None
        /\ frame.total_distance = 0 => result.avg_speed = None
        /\ result.avg_speed = Num(0) =>
               /\ frame.total_distance > 0
               /\ result.duration_seconds.v > 0
               /\ 2 * frame.total_distance <= 10 * result.duration_seconds.v

\* C10 witness: 0.011 m in 4 s, a speed of 0.00278 m/s returned as 0.
C10_Witness ==
    /\ Returned
    /\ frame.total_distance = 11
    /\ result.duration_seconds = Num(4)
    /\ result.avg_speed = Num(0)

\* s is n / d rounded to 2 places: a multiple of 10 at most 5 away from the
\* quotient (d > 0).
IsRoundedQuotient(s, n, d) ==
    /\ s % 10 = 0
    /\ 2 * abs(s * d - n) <= 10 * d

\* C11: avg_speed is present only with a duration above 0, and then it is the
\* total of the distance legs divided by the duration, rounded to 2 places.
C11_SpeedIsDistanceOverDuration ==
    (Returned /\ result.avg_speed # None) =>
        /\ result.duration_seconds # None
        /\ result.duration_seconds.v > 0
        /\ IsRoundedQuotient(result.avg_speed.v,
                             AdjacentLegs(track_data, Len(track_data)),
                             result.duration_seconds.v)

\* C11 witness: 0.022 m in 4 s returned as 0.01 m/s.
C11_Witness ==
    /\ Returned
    /\ AdjacentLegs(track_data, Len(track_data)) = 22
    /\ result.duration_seconds = Num(4)
    /\ result.avg_speed = Num(10)

\* Indices of the points of td that carry both coordinates.
CarryingIndices(td) == {k \in 1..Len(td) : Carries(td[k])}

\* lo and hi are the smallest and the largest of the values coord(td[k]) over
\* the points that carry both coordinates.
IsExtrema(lo, hi, td, coord(_)) ==
    /\ \E k \in CarryingIndices(td) : lo = coord(td[k])
    /\ \E k \in CarryingIndices(td) : hi = coord(td[k])
    /\ \A k \in CarryingIndices(td) : lo.v <= coord(td[k]).v /\ coord(td[k]).v <= hi.v

LatitudeOf(point) == point.latitude
LongitudeOf(point) == point.longitude

BoxAbsent ==
    /\ result.min_lat = None /\ result.max_lat = None
    /\ result.min_lon = None /\ result.max_lon = None

\* The bounding box of the result is the extrema over the carrying points.
BoxIsExtrema ==
    IF CarryingIndices(track_data) = {} THEN BoxAbsent
    ELSE /\ IsExtrema(result.min_lat, result.max_lat, track_data, LatitudeOf)
         /\ IsExtrema(result.min_lon, result.max_lon, track_data, LongitudeOf)

\* C12 as stated: for every returned record, min_lat, max_lat, min_lon and
\* max_lon are the extrema over the points that carry both coordinates, and
\* all four are absent when no point carries both.
C12_Original == Returned => BoxIsExtrema

\* C12: for a list of at least two points the bounding box is the extrema
\* over exactly the points that carry both coordinates, absent when there is
\* none; for a shorter list all four are absent.
C12_BoxOverCarryingPoints ==
    Returned =>
        IF Len(track_data) >= 2 THEN BoxIsExtrema ELSE BoxAbsent

\* C12 witness: a box that spans both axes although one point of the list
\* carries no full coordinate pair.
C12_Witness ==
    /\ Returned
    /\ \E k \in 1..Len(track_data) : ~Carries(track_data[k])
    /\ result.min_lat = Num(0) /\ result.max_lat = Num(1)
    /\ result.min_lon = Num(0) /\ result.max_lon = Num(10000000)

\* The box is the single point (lat, lon).
BoxIsPoint(point) ==
    /\ result.min_lat = point.latitude /\ result.max_lat = point.latitude
    /\ result.min_lon = point.longitude /\ result.max_lon = point.longitude

\* C13 as stated: every input with exactly one coordinate-bearing point
\* returns the box of that point.
C13_Original ==
    (Returned /\ CoordCount(track_data) = 1) =>
        \A k \in CarryingIndices(track_data) : BoxIsPoint(track_data[k])

\* C13: an input of at least two points with exactly one coordinate-bearing
\* point returns the box of that point; a one-point list returns no box.
C13_SingleCoordinatePoint ==
    (Returned /\ CoordCount(track_data) = 1) =>
        IF Len(track_data) >= 2
        THEN \A k \in CarryingIndices(track_data) : BoxIsPoint(track_data[k])
        ELSE BoxAbsent

\* C13 witness: three points, only the last with coordinates: the box is that
\* point, latitude 1e-7 and longitude 1.
C13_Witness ==
    /\ Returned
    /\ Len(track_data) = 3
    /\ CarryingIndices(track_data) = {3}
    /\ result.min_lat = Num(1) /\ result.max_lat = Num(1)
    /\ result.min_lon = Num(10000000) /\ result.max_lon = Num(10000000)

\* The point carries exactly one of latitude and longitude.
Partial(point) ==
    (point.latitude.kind # "none") # (point.longitude.kind # "none")

\* td with the single coordinate of every partial point taken away.
Stripped(td) ==
    [k \in 1..Len(td) |->
        IF Partial(td[k])
        THEN [td[k] EXCEPT !.latitude = None, !.longitude = None]
        ELSE td[k]]

\* C14: a point with only one of latitude and longitude counts for distance
\* and bounding box exactly as a point with neither: the outcome of the call
\* is the outcome for the list with those single coordinates taken away.
C14_PartialPointsExcluded ==
    (Terminated /\ \E k \in 1..Len(track_data) : Partial(track_data[k])) =>
        [pc |-> pc, result |-> result] =
            calculate_track_stats(Stripped(track_data))

\* C14 witness: a latitude-only point at latitude 1e-7 between two points at
\* latitude 0, one degree of longitude apart: no leg, and a box that stays at
\* latitude 0.
C14_Witness ==
    /\ Returned
    /\ Len(track_data) = 3
    /\ Carries(track_data[1]) /\ Carries(track_data[3])
    /\ track_data[2].latitude = Num(1) /\ track_data[2].longitude = None
    /\ result.distance_meters = Num(0)
    /\ result.max_lat = Num(0)
    /\ result.max_lon = Num(10000000)

\* td with the points at indices i and j exchanged.
Swap(td, i, j) == [td EXCEPT ![i] = td[j], ![j] = td[i]]

\* Pairs of neighbouring indices of td to exchange (every permutation is a
\* chain of such exchanges).
Transpositions(td) == {<<i, i + 1>> : i \in 1..(Len(td) - 1)}

\* The legs between the adjacent points of the exchanged list sum (to 2
\* places) to another total than base, and the call on it returns.
ChangesAdjacency(td, ij, base) ==
    /\ Round2(AdjacentLegs(Swap(td, ij[1], ij[2]), Len(td))) # base
    /\ calculate_track_stats(Swap(td, ij[1], ij[2])).pc = "returned"

\* C17: the points are consumed in the given order: whenever exchanging two
\* points changes the total of the legs between adjacent points, the
\* distance_meters returned for the exchanged list differs.
C17_OrderSensitive ==
    (Returned /\ Len(track_data) >= 2) =>
        LET base == Round2(AdjacentLegs(track_data, Len(track_data)))
        IN  \A ij \in Transpositions(track_data) :
                ChangesAdjacency(track_data, ij, base) =>
                    calculate_track_stats(Swap(track_data, ij[1], ij[2]))
                        .result.distance_meters # result.distance_meters

\* C17 witness: (0,0), (0,0), (0,1) returns one degree of longitude, and the
\* permutation (0,0), (0,1), (0,0) returns two.
C17_Witness ==
    /\ Returned
    /\ Len(track_data) = 3
    /\ result.distance_meters = Num(111194930)
    /\ calculate_track_stats(Swap(track_data, 2, 3)).result.distance_meters =
           Num(222389850)

\* The timestamp is a string that datetime.fromisoformat rejects.
Unparseable(ts) == ts.kind = "str" /\ ts.tz \notin {"Z", "+00:00", ""}

\* td with every unparseable string timestamp taken away.
WithoutUnparseable(td) ==
    [k \in 1..Len(td) |->
        IF Unparseable(td[k].timestamp)
        THEN [td[k] EXCEPT !.timestamp = TsNone] ELSE td[k]]

\* td with the suffix "+00:00" written for every trailing "Z".
WithOffsets(td) ==
    [k \in 1..Len(td) |->
        IF td[k].timestamp.kind = "str" /\ td[k].timestamp.tz = "Z"
        THEN [td[k] EXCEPT !.timestamp = TsStr(@.v, "+00:00")] ELSE td[k]]

\* C18: a string timestamp that does not parse is dropped without an error,
\* the point counting otherwise as a point with no timestamp, and a string
\* ending in "Z" counts as the same string ending in "+00:00": the outcome of
\* the call is the outcome for the list so rewritten.
C18_StringTimestamps ==
    (Terminated /\ \E k \in 1..Len(track_data) :
                       track_data[k].timestamp.kind = "str") =>
        /\ [pc |-> pc, result |-> result] =
               calculate_track_stats(WithoutUnparseable(track_data))
        /\ [pc |-> pc, result |-> result] =
               calculate_track_stats(WithOffsets(track_data))
        /\ (\A k \in 1..Len(track_data) :
                track_data[k].timestamp.kind = "str") => Returned

\* C18 witness: between a point stamped 0 s "+00:00" and one stamped 4 s "Z",
\* a point at longitude 1 and 150 m whose timestamp does not parse: 4 s, two
\* legs, a box up to longitude 1 and a maximum of 150 m.
C18_Witness ==
    /\ Returned
    /\ Len(track_data) = 3
    /\ track_data[1].timestamp = TsStr(0, "+00:00")
    /\ Unparseable(track_data[2].timestamp)
    /\ track_data[3].timestamp = TsStr(4000, "Z")
    /\ result.duration_seconds = Num(4)
    /\ result.distance_meters = Num(222389850)
    /\ result.max_lon = Num(10000000)
    /\ result.max_elevation = Num(150000)
    /\ result.elevation_gain = Num(50000)

\* The field is absent or a number with no third decimal (a multiple of
\* 10 mm).
TwoDecimals(field) == field.kind = "num" => field.v % 10 = 0

\* Indices of the points of td that have an elevation.
ElevationIndices(td) == {k \in 1..Len(td) : td[k].elevation.kind # "none"}

\* lo and hi are the smallest and the largest elevation of td, as given.
IsRawElevationRange(lo, hi, td) ==
    /\ \E k \in ElevationIndices(td) : lo = td[k].elevation
    /\ \E k \in ElevationIndices(td) : hi = td[k].elevation
    /\ \A k \in ElevationIndices(td) :
           lo.v <= td[k].elevation.v /\ td[k].elevation.v <= hi.v

\* C20 as stated: distance_meters and all four elevation outputs have no
\* non-zero third decimal.
C20_Original ==
    Returned =>
        /\ TwoDecimals(result.distance_meters)
        /\ TwoDecimals(result.elevation_gain)
        /\ TwoDecimals(result.elevation_loss)
        /\ TwoDecimals(result.max_elevation)
        /\ TwoDecimals(result.min_elevation)

\* C20: distance_meters, elevation_gain and elevation_loss are rounded to 2
\* decimal places; max_elevation and min_elevation are the largest and the
\* smallest input elevation exactly as given.
C20_RoundedSumsRawExtremes ==
    Returned =>
        /\ TwoDecimals(result.distance_meters)
        /\ TwoDecimals(result.elevation_gain)
        /\ TwoDecimals(result.elevation_loss)
        /\ result.max_elevation # None =>
               IsRawElevationRange(result.min_elevation, result.max_elevation,
                                   track_data)

\* C20 witness: elevations 100 m and 100.004 m return a gain or loss rounded
\* to 0 and a maximum of 100.004 m.
C20_Witness ==
    /\ Returned
    /\ result.min_elevation = Num(100000)
    /\ result.max_elevation = Num(100004)
    /\ result.elevation_gain = Num(0)
    /\ result.elevation_loss = Num(0)

\* The calls finished so far, the current one included once it has ended.
FinishedCalls ==
    {history[k] : k \in 1..Len(history)} \cup
        (IF pc \in {"returned", "raised"} THEN {Outcome} ELSE {})

\* C15: two calls of one process on the same input return identical records,
\* whatever was called before and in between.
C15_SameInputSameRecord ==
    \A c1, c2 \in FinishedCalls :
        c1.track_data = c2.track_data =>
            c1.pc = c2.pc /\ c1.result = c2.result

\* C15 witness: the third call repeats the input of the first after a call on
\* another input, and returns the record of the first.
C15_Witness ==
    /\ Returned
    /\ Len(history) = 2
    /\ Len(track_data) = 2
    /\ history[1].track_data = track_data
    /\ history[2].track_data # track_data
    /\ Len(history[2].track_data) = 2
    /\ history[1].result = result
    /\ result.distance_meters = Num(111194930)

\* All invocations that run: the first one and the others.
Invocations ==
    {[track_data |-> track_data, pc |-> pc, frame |-> frame, result |-> result]}
        \cup {others[c] : c \in DOMAIN others}

\* C16: however the steps of concurrent invocations interleave, an invocation
\* that has ended has the outcome of the same call run alone.
C16_ConcurrentCallsIndependent ==
    \A inv \in Invocations :
        inv.pc \in {"returned", "raised"} =>
            [pc |-> inv.pc, result |-> inv.result] =
                calculate_track_stats(inv.track_data)

\* C16 witness: the first invocation is in the middle of its loop over two
\* points, with one point accumulated, when another invocation on the two
\* points in the opposite order has returned its own record.
C16_Witness ==
    /\ pc = "loop" /\ frame.i = 2
    /\ Len(track_data) = 2
    /\ track_data[1].elevation = Num(100000)
    /\ track_data[2].elevation = Num(150000)
    /\ \E c \in DOMAIN others :
           /\ others[c].pc = "returned"
           /\ others[c].track_data = Swap(track_data, 1, 2)
           /\ others[c].result.elevation_loss = Num(50000)
           /\ others[c].result.elevation_gain = Num(0)
           /\ others[c].result.distance_meters = Num(111194930)

\* The last request was a statistics read that found its track.
StatsAnswered ==
    /\ response.status = 200
    /\ response.endpoint = "get_track_stats"

\* The answer has the column and its value is the stored one.
Surfaced(column) ==
    /\ column \in DOMAIN response.body
    /\ response.body[column] = db[response.track_id][column]

\* C19 as stated: every field of the statistics record that create_track
\* stored is returned by get_track_stats with the stored value.
C19_Original ==
    StatsAnswered =>
        \A column \in StatisticsColumns \cup BoundingBoxColumns :
            Surfaced(column)

\* C19: get_track_stats returns the seven statistics columns with exactly the
\* stored values, and nothing else: the four bounding-box columns that
\* create_track stored are not in its answer.
C19_SevenStatisticsSurfaced ==
    StatsAnswered =>
        /\ DOMAIN response.body = StatisticsColumns
        /\ \A column \in StatisticsColumns : Surfaced(column)

\* C19 witness: the statistics of a stored two-point track are read, the
\* track having a bounding box in the table.
C19_Witness ==
    /\ StatsAnswered
    /\ response.body.distance_meters = Num(111194930)
    /\ response.body.elevation_gain = Num(50000)
    /\ response.body.duration_seconds = Num(4)
    /\ db[response.track_id].max_lon = Num(10000000)

\* The iteration about to run adds a leg between two numeric points.
LegAhead ==
    /\ pc = "loop"
    /\ frame.i <= Len(track_data)
    /\ AddsLeg(track_data, frame.i)
    /\ IsNum(track_data[frame.i].latitude)
    /\ IsNum(track_data[frame.i].longitude)
    /\ IsNum(prev_point(track_data, frame.i).latitude)
    /\ IsNum(prev_point(track_data, frame.i).longitude)

\* C21: for no pair of coordinates a leg is computed from is the square root
\* of line 22 taken of a negative 1 - a.
C21_NoSqrtOfNegative ==
    LegAhead =>
        ~SqrtDomainError(haversine_a(
            prev_point(track_data, frame.i).latitude.v,
            prev_point(track_data, frame.i).longitude.v,
            track_data[frame.i].latitude.v,
            track_data[frame.i].longitude.v))

\* The fields of a record r named in the set fields.
Only(r, fields) == [field \in fields |-> r[field]]

DistanceFields == {"distance_meters"}
BoxFields == {"min_lat", "max_lat", "min_lon", "max_lon"}
ElevationFields ==
    {"elevation_gain", "elevation_loss", "max_elevation", "min_elevation"}
TimeFields == {"duration_seconds"}
SpeedFields == {"avg_speed"}

\* The call on td2 ends as the current call did, and when it returned, with
\* the same values in the given fields.
SameOutcomeIn(td2, fields) ==
    LET out == calculate_track_stats(td2)
    IN  /\ out.pc = pc
        /\ Returned => Only(out.result, fields) = Only(result, fields)

\* Values one field of one point is changed to.
OtherElevations == {None, Num(100000), Num(150000)}
OtherTimestamps == {TsNone, DateTime(0, "utc"), DateTime(500, "naive")}
OtherCoordinates ==
    {<<None, None>>, <<Num(0), Num(0)>>, <<Num(0), Num(10000000)>>}

\* C22: changing only the elevation of a point leaves distance, duration,
\* speed and bounding box as they were; changing only its timestamp leaves
\* distance, elevation outputs and bounding box; changing only its
\* coordinates leaves elevation outputs and duration.
C22_AccumulatorsIndependent ==
    (Terminated /\ WellTyped(track_data)) =>
        \A k \in 1..Len(track_data) :
            /\ \A elev \in OtherElevations :
                   SameOutcomeIn([track_data EXCEPT ![k].elevation = elev],
                                 DistanceFields \cup TimeFields \cup SpeedFields
                                     \cup BoxFields)
            /\ \A ts \in OtherTimestamps :
                   SameOutcomeIn([track_data EXCEPT ![k].timestamp = ts],
                                 DistanceFields \cup ElevationFields
                                     \cup BoxFields)
            /\ \A c \in OtherCoordinates :
                   SameOutcomeIn([track_data EXCEPT ![k].latitude = c[1],
                                                    ![k].longitude = c[2]],
                                 ElevationFields \cup TimeFields)

\* td with point p put in after position pos (0 puts it in front).
Insert(td, pos, p) ==
    SubSeq(td, 1, pos) \o <<p>> \o SubSeq(td, pos + 1, Len(td))

\* The points without elevation that are put in.
PointsWithoutElevation == {p \in SparsePoints : p.elevation = None}

\* Wherever p is put into track_data, a call that returns has the elevation
\* outputs of the current call.
ElevationOutputsKept ==
    \A pos \in 0..Len(track_data), p \in PointsWithoutElevation :
        LET out == calculate_track_stats(Insert(track_data, pos, p))
        IN  out.pc = "returned" =>
                Only(out.result, ElevationFields) = Only(result, ElevationFields)

StoredIds == {id \in 1..Len(db) : db[id].live}

\* The statistics and bounding-box columns of the track are what
\* calculate_track_stats returns for its stored point list.
StatisticsCurrent(track) ==
    LET out == calculate_track_stats(track.track_data)
        columns == StatisticsColumns \cup BoundingBoxColumns
    IN  /\ out.pc = "returned"
        /\ Only(track, columns) = Only(out.result, columns)

\* A step leaves point list, statistics, id and owner of every track that
\* stays in the table as they were.
DataKept ==
    \A id \in StoredIds :
        (id \in 1..Len(db') /\ db'[id].live) =>
            Only(db'[id], {"id", "user_id", "track_data"}
                              \cup StatisticsColumns \cup BoundingBoxColumns)
                = Only(db[id], {"id", "user_id", "track_data"}
                                   \cup StatisticsColumns \cup BoundingBoxColumns)

\* C24: after any sequence of create_track, update_track and delete_track
\* requests every stored track has the statistics of its stored point list,
\* and no request changes the point list or a statistic of a stored track.
C24_StatisticsOfStoredData ==
    /\ [](\A id \in StoredIds : StatisticsCurrent(db[id]))
    /\ [][DataKept]_vars

\* C24 witness: a two-point track that was renamed, beside a deleted one,
\* still has the distance of its points.
C24_Witness ==
    /\ Len(db) = 2
    /\ db[1] = Deleted
    /\ db[2].live
    /\ db[2].name = "b" /\ db[2].entry_id = Num(7)
    /\ Len(db[2].track_data) = 2
    /\ db[2].distance_meters = Num(111194930)
    /\ db[2].max_lon = Num(10000000)

\* C25: a latitude, longitude or elevation of 0 counts as present, and on an
\* input of at least two points a distance, duration, gain, loss, elevation
\* extreme or bounding-box bound that comes out as 0 is returned as 0, not as
\* absent.
C25_ZeroIsNotAbsent ==
    (Returned /\ Len(track_data) >= 2) =>
        LET series == ElevationSeries(track_data, Len(track_data))
            instants == Instants(track_data, Len(track_data))
        IN  /\ AdjacentLegs(track_data, Len(track_data)) = 0 =>
                   result.distance_meters = Num(0)
            /\ (Len(instants) >= 2 /\ abs(LastMinusFirst(track_data)) < 1000) =>
                   result.duration_seconds = Num(0)
            /\ (series # <<>> /\ PositiveDeltaSum(series) = 0) =>
                   result.elevation_gain = Num(0)
            /\ (series # <<>> /\ NonPositiveDeltaSum(series) = 0) =>
                   result.elevation_loss = Num(0)
            /\ ElevationIndices(track_data) # {} =>
                   IsRawElevationRange(result.min_elevation,
                                       result.max_elevation, track_data)
            /\ CarryingIndices(track_data) # {} => BoxIsExtrema

\* C25 witness: two points at latitude 0, longitude 0 and elevation 0 with
\* the same timestamp: every statistic but avg_speed is returned as 0.
C25_Witness ==
    /\ Returned
    /\ Len(track_data) = 2
    /\ track_data[1].elevation = Num(0) /\ track_data[2].elevation = Num(0)
    /\ Only(result, DistanceFields \cup TimeFields \cup ElevationFields
                        \cup BoxFields)
           = [field \in DistanceFields \cup TimeFields \cup ElevationFields
                            \cup BoxFields |-> Num(0)]
    /\ result.avg_speed = None

\* Every field of the result but distance_meters is absent.
AllButDistanceAbsent ==
    \A field \in TimeFields \cup SpeedFields \cup ElevationFields \cup BoxFields :
        result[field] = None

\* C26: a call on a list of fewer than two points returns distance_meters = 0
\* and every other field absent, whatever its point carries.
C26_FewerThanTwoPoints ==
    (Terminated /\ Len(track_data) < 2) =>
        /\ Returned
        /\ result.distance_meters = Num(0)
        /\ AllButDistanceAbsent

\* C26 witness: one point that has coordinates, an elevation and a
\* timestamp, and the record with nothing but a distance of 0.
C26_Witness ==
    /\ Returned
    /\ Len(track_data) = 1
    /\ Carries(track_data[1])
    /\ track_data[1].elevation = Num(100000)
    /\ track_data[1].timestamp = DateTime(4000, "utc")
    /\ result.distance_meters = Num(0)
    /\ AllButDistanceAbsent

\* A record was returned for an input with two or more parseable timestamps.
ReturnedWithTimes ==
    Returned /\ Len(Instants(track_data, Len(track_data))) >= 2

\* C27 as stated: a first timestamp later than the last gives a negative
\* duration_seconds and no avg_speed; first and last less than one second
\* apart give duration_seconds 0 and no avg_speed.
C27_Original ==
    ReturnedWithTimes =>
        /\ LastMinusFirst(track_data) < 0 =>
               result.duration_seconds.v < 0 /\ result.avg_speed = None
        /\ abs(LastMinusFirst(track_data)) < 1000 =>
               result.duration_seconds = Num(0) /\ result.avg_speed = None

\* C27: a first timestamp later than the last by one second or more gives
\* the negative number of whole seconds between them and no avg_speed; first
\* and last less than one second apart, in either order, give
\* duration_seconds 0 and no avg_speed.
C27_NegativeAndZeroDurations ==
    ReturnedWithTimes =>
        /\ LastMinusFirst(track_data) <= -1000 =>
               /\ result.duration_seconds =
                      Num(-((-LastMinusFirst(track_data)) \div 1000))
               /\ result.duration_seconds.v < 0
               /\ result.avg_speed = None
        /\ abs(LastMinusFirst(track_data)) < 1000 =>
               result.duration_seconds = Num(0) /\ result.avg_speed = None

\* C27 witness: timestamps 4 s then 0 s on two places 11 mm apart:
\* duration_seconds -4 and no avg_speed.
C27_Witness ==
    /\ Returned
    /\ Len(track_data) = 2
    /\ track_data[1].timestamp = DateTime(4000, "utc")
    /\ track_data[2].timestamp = DateTime(0, "utc")
    /\ result.distance_meters = Num(10)
    /\ result.duration_seconds = Num(-4)
    /\ result.avg_speed = None

\* A double: the one nearest to mm / 1000 plus err units of 2^-55 m.
Double(mm, err) == [mm |-> mm, err |-> err]

\* The err of the double difference x - y where it is not 0, as the doubles
\* give it for the accumulators of series of up to four elevations among
\* 0.0, 0.2 and 0.9 m (0.9 - 0.7 is 0.20000000000000007, two units above the
\* double 0.2).
DoubleDifferences ==
    {<<0, 0, 900, -4, 4>>, <<200, 0, 1100, 0, -4>>, <<700, 0, 900, -4, 2>>,
     <<700, 0, 900, 0, -2>>, <<700, 0, 1600, 0, -4>>, <<900, -4, 0, 0, -4>>,
     <<900, -4, 700, 0, -2>>, <<900, -4, 900, 0, -4>>, <<900, 0, 700, 0, 2>>,
     <<900, 0, 900, -4, 4>>, <<900, 0, 1100, 0, -2>>, <<900, 0, 1600, 0, -4>>,
     <<1100, 0, 200, 0, 4>>, <<1100, 0, 900, 0, 2>>, <<1600, 0, 700, 0, 4>>,
     <<1600, 0, 900, 0, 4>>}

\* x - y on doubles.
fsub(x, y) ==
    LET hit == {t \in DoubleDifferences :
                    /\ t[1] = x.mm /\ t[2] = x.err
                    /\ t[3] = y.mm /\ t[4] = y.err}
    IN  Double(x.mm - y.mm, IF hit = {} THEN 0 ELSE (CHOOSE t \in hit : TRUE)[5])

\* x >= 0 on doubles.
NonNegative(x) == x.mm > 0 \/ (x.mm = 0 /\ x.err >= 0)

\* The unrounded accumulators of the frame.
UnroundedGain == Double(frame.elevation_gain, frame.gain_err)
UnroundedLoss == Double(frame.elevation_loss, frame.loss_err)

\* The loop has run over an input of two or more points with a non-empty
\* elevation series, and the record was returned.
ReturnedWithElevations ==
    /\ Returned
    /\ Len(track_data) >= 2
    /\ ElevationSeries(track_data, Len(track_data)) # <<>>

\* C28 as stated: the unrounded gain minus the unrounded loss is equal to the
\* last entry of the elevation series minus the first, and neither is
\* negative.
C28_Original ==
    ReturnedWithElevations =>
        LET series == ElevationSeries(track_data, Len(track_data))
        IN  /\ fsub(UnroundedGain, UnroundedLoss) =
                   Double(series[Len(series)].v - series[1].v, 0)
            /\ NonNegative(UnroundedGain)
            /\ NonNegative(UnroundedLoss)

\* C28: the unrounded gain minus the unrounded loss is equal to the last
\* entry of the elevation series minus the first in exact arithmetic; the
\* doubles differ from it by the rounding of the additions, at most 2^-52 m
\* for each delta of these series.  Neither gain nor loss is negative.
C28_TelescopesUpToRounding ==
    ReturnedWithElevations =>
        LET series == ElevationSeries(track_data, Len(track_data))
            bound == 8 * (Len(series) - 1)
            diff == fsub(UnroundedGain, UnroundedLoss)
        IN  /\ frame.elevation_gain - frame.elevation_loss =
                   series[Len(series)].v - series[1].v
            /\ diff.mm = series[Len(series)].v - series[1].v
            /\ abs(diff.err) <= bound
            /\ abs(frame.gain_err) <= bound
            /\ abs(frame.loss_err) <= bound
            /\ NonNegative(UnroundedGain)
            /\ NonNegative(UnroundedLoss)

\* C28 witness: the elevations 0.0, 0.2, 0.9 returned with the gain
\* 0.8999999999999999 and the loss 0.0, where last minus first is 0.9.
C28_Witness ==
    /\ Returned
    /\ ElevationSeries(track_data, Len(track_data)) =
           <<Num(0), Num(200), Num(900)>>
    /\ UnroundedGain = Double(900, -4)
    /\ UnroundedLoss = Double(0, 0)
    /\ result.elevation_gain = Num(900)

\* The fields are all present or all absent in record r.
AllOrNone(r, fields) ==
    (\A field \in fields : r[field] # None)
        \/ (\A field \in fields : r[field] = None)

\* C29: in every returned record the four bounding-box fields are all
\* present or all absent, the four elevation fields are all present or all
\* absent, and where present min_lat <= max_lat, min_lon <= max_lon and
\* min_elevation <= max_elevation.
C29_FieldGroupsAndOrder ==
    Returned =>
        /\ AllOrNone(result, BoxFields)
        /\ AllOrNone(result, ElevationFields)
        /\ result.min_lat # None => result.min_lat.v <= result.max_lat.v
        /\ result.min_lon # None => result.min_lon.v <= result.max_lon.v
        /\ result.min_elevation # None =>
               result.min_elevation.v <= result.max_elevation.v

\* C29 witness: a record over two or more points with the bounding box
\* present and wider than a point, and the four elevation fields absent.
C29_Witness ==
    /\ Returned
    /\ Len(track_data) >= 2
    /\ \A field \in BoxFields : result[field] # None
    /\ result.min_lon.v < result.max_lon.v
    /\ \A field \in ElevationFields : result[field] = None

\* The endpoints that address one track by its id.
ByIdEndpoints == {"get_track", "get_track_stats", "update_track", "delete_track"}

\* The last request addressed, by id, a stored track of another user.
OnForeignTrack(resp) ==
    /\ resp.endpoint \in ByIdEndpoints
    /\ resp.track_id \in StoredIds
    /\ db[resp.track_id].user_id # resp.user

\* The answer to list_tracks holds only rows of the caller.
ListsOwnTracks ==
    (response # NoResponse /\ response.endpoint = "list_tracks") =>
        \A track \in response.body : track.user_id = response.user

\* A request leaves every stored track of the other users as it is, and a
\* request by id on such a track is answered 404.
ForeignTracksUntouched ==
    /\ \A id \in StoredIds :
           db[id].user_id # response'.user =>
               id \in 1..Len(db') /\ db'[id] = db[id]
    /\ OnForeignTrack(response') =>
           response'.status = 404 /\ db' = db

\* C30: in any sequence of requests by several users, get_track,
\* get_track_stats, update_track and delete_track on a track owned by
\* another user answer 404 and leave that track unchanged, and list_tracks
\* returns only tracks whose user_id is the caller's.
C30_OwnerIsolation ==
    /\ []ListsOwnTracks
    /\ [][ForeignTracksUntouched]_vars

\* C30 witness: user 2 asked to delete the stored track of user 1 and was
\* answered 404, with a track of their own in the table.
C30_Witness ==
    /\ response.status = 404
    /\ response.endpoint = "delete_track"
    /\ response.user = 2
    /\ response.track_id \in StoredIds
    /\ db[response.track_id].user_id = 1
    /\ \E id \in StoredIds : db[id].user_id = 2


===========================================================================
